---- MODULE Spec2Model ----
(***************************************************************************)
(* Model of the ResNet50 browser demo: lib/model/model.ts (preprocessImage, *)
(* getModelData, initializeModel, createModelSession, runResNetModel,       *)
(* computeSoftmax, detectImage) and ImageRecognitionComponent.tsx           *)
(* (handleFileUpload, processUploadedImage).                                *)
(*                                                                          *)
(* Four specifications share the module:                                    *)
(*   SpecPre       - preprocessImage applied to every small resized image;  *)
(*   SpecPost      - the softmax / sort / slice / label tail of detectImage *)
(*                   applied to every small score vector;                   *)
(*   Spec          - the module under concurrent direct callers of          *)
(*                   initializeModel and detectImage, one step per await;   *)
(*   SpecComponent - the component driving the module, its event handlers   *)
(*                   interleaving with the awaits of a request in flight.   *)
(* Floating point values are modelled in fixed point (thousandths), over    *)
(* finite numbers only (no NaN, no infinities).                             *)
(***************************************************************************)
EXTENDS Integers, Sequences, FiniteSets, TLC

\* ------------------------------------------------------------------ bounds
\* Image size after resize (224 x 224 in the program), scaled down.
width == 3
height == 2
channels == 3
\* Score vectors SpecPost enumerates: every vector of up to MaxFree logits
\* in 0..MaxLogit, with up to MaxPad equal logits put before or after it.
MaxFree == 3
MaxPad == 9
MaxLogit == 2
\* Number of entries of labels.json (1000 in the program), scaled down.
NumLabels == 11
\* slice(0, 10) in detectImage.
TopK == 10
\* Direct callers of the module besides the component, files the user can
\* pick, and the cap on fetches issued in one behaviour.
NumCallers == 2
NumFiles == 2
MaxFetches == 2

NULL == 0
UNDEFINED == -1

Min(a, b) == IF a < b THEN a ELSE b

\* ------------------------------------------------------- preprocessImage
\* ImageNet mean and std per channel, in thousandths.
mean == <<485, 456, 406>>
std == <<229, 224, 225>>

\* Two RGBA colours as getPixelColor returns them: 0x7F0000FF, 0x102030FF
\* (TLC's integers are 32 bit signed, so the red byte stays below 0x80).
PixelColors == {2130706687, 270544127}

\* intToRGBA of jimp: the four bytes of the 32 bit colour.
intToRGBA(i) ==
  [r |-> (i \div 16777216) % 256,
   g |-> (i \div 65536) % 256,
   b |-> (i \div 256) % 256,
   a |-> i % 256]

\* (channelValue / 255.0 - mean[c]) / std[c], in thousandths.
Normalize(c, channelValue) ==
  ((((channelValue * 1000) \div 255) - mean[c + 1]) * 1000) \div std[c + 1]

\* One element of pixelData: channel c of the pixel at column w, row h.
PixelValue(image, c, h, w) ==
  LET pixelColor == intToRGBA(image[<<w, h>>])
      channelValue == IF c = 0 THEN pixelColor.r
                      ELSE IF c = 1 THEN pixelColor.g ELSE pixelColor.b
  IN  Normalize(c, channelValue)

pixelData(image) ==
  [c \in 0..(channels - 1) |->
    [h \in 0..(height - 1) |->
      [w \in 0..(width - 1) |-> PixelValue(image, c, h, w)]]]

\* A plausible slip: rows and columns swapped in the flattening formula.
WriteIndexTransposed(c, h, w) == c * height * width + w * height + h

\* const index = c * height * width + h * width + w
WriteIndex(c, h, w) == c * height * width + h * width + w

\* The writes of the three nested forEach loops, in the order they happen.
LoopOrder ==
  [k \in 1..(channels * height * width) |->
    [c |-> (k - 1) \div (height * width),
     h |-> ((k - 1) % (height * width)) \div width,
     w |-> (k - 1) % width]]

Writes(image) ==
  [k \in 1..Len(LoopOrder) |->
    LET at == LoopOrder[k]
    IN  [index |-> WriteIndex(at.c, at.h, at.w),
         value |-> pixelData(image)[at.c][at.h][at.w]]]

\* new Float32Array(channels * height * width) is zero filled; result[index]
\* = value stores in range and is ignored out of range; the last write wins.
processPixels(image) ==
  LET ws == Writes(image)
  IN  [i \in 0..(channels * height * width - 1) |->
        LET hits == {k \in 1..Len(ws) : ws[k].index = i}
        IN  IF hits = {} THEN 0
            ELSE ws[CHOOSE k \in hits : \A j \in hits : j <= k].value]

\* The resized images preprocessImage can see.
Images == [((0..(width - 1)) \X (0..(height - 1))) -> PixelColors]
NoImage == [p \in {} |-> 0]

\* --------------------------------------------- computeSoftmax, detectImage
\* exp(-d) in thousandths, d = maxLogit - logit >= 0.
ExpTable == <<1000, 368, 135, 50, 18, 7, 2>>
Exp(d) == IF d + 1 <= Len(ExpTable) THEN ExpTable[d + 1] ELSE 0

RECURSIVE SeqSum(_)
SeqSum(s) == IF s = <<>> THEN 0 ELSE s[1] + SeqSum(Tail(s))

SeqMax(s) == CHOOSE m \in {s[i] : i \in 1..Len(s)} :
               \A i \in 1..Len(s) : s[i] <= m

computeSoftmax(logits) ==
  IF logits = <<>> THEN <<>>
  ELSE LET maxLogit == SeqMax(logits)
           expScores == [i \in 1..Len(logits) |-> Exp(maxLogit - logits[i])]
           sumExpScores == SeqSum(expScores)
       IN  [i \in 1..Len(logits) |-> (expScores[i] * 1000) \div sumExpScores]

\* probabilities.map((score, index) => ({ score, index })), index from 0.
indexedScores(probabilities) ==
  [i \in 1..Len(probabilities) |-> [score |-> probabilities[i], index |-> i - 1]]

\* A plausible slip: the comparator a.score - b.score (ascending).
CompareAscending(a, b) == a.score - b.score

\* (a, b) => b.score - a.score
Compare(a, b) == b.score - a.score

\* Array.prototype.sort is stable: an element goes after every element the
\* comparator does not put behind it.
RECURSIVE InsertSorted(_, _)
InsertSorted(sorted, x) ==
  IF sorted = <<>> THEN <<x>>
  ELSE IF Compare(sorted[1], x) <= 0
       THEN <<sorted[1]>> \o InsertSorted(Tail(sorted), x)
       ELSE <<x>> \o sorted

RECURSIVE SortFrom(_, _)
SortFrom(acc, rest) ==
  IF rest = <<>> THEN acc
  ELSE SortFrom(InsertSorted(acc, rest[1]), Tail(rest))

sortedResults(scores) == SortFrom(<<>>, scores)

\* A plausible slip: slice(0, 3), the three the comments speak of.
SliceTopThree(s) == SubSeq(s, 1, Min(3, Len(s)))

\* slice(0, 10)
SliceTop(s) == SubSeq(s, 1, Min(TopK, Len(s)))

\* labels.json: entry i is the label of class i (here the number 100 + i).
labels == [i \in 1..NumLabels |-> 100 + (i - 1)]

\* labels[index]: undefined past the end of the array.
LabelAt(index) == IF index < Len(labels) THEN labels[index + 1] ELSE UNDEFINED

\* The tail of detectImage: lines 222-235.
topPredictions(outputData) ==
  LET probabilities == computeSoftmax(outputData)
      top == SliceTop(sortedResults(indexedScores(probabilities)))
  IN  [i \in 1..Len(top) |->
        [label |-> LabelAt(top[i].index),
         score |-> top[i].score,
         index |-> top[i].index]]

RECURSIVE SeqsUpTo(_, _)
SeqsUpTo(n, S) ==
  IF n = 0 THEN {<<>>}
  ELSE LET shorter == SeqsUpTo(n - 1, S)
       IN  shorter \cup {Append(s, x) : s \in {t \in shorter : Len(t) = n - 1}, x \in S}

Pad(c, m) == [i \in 1..m |-> c]

ScoreVectors ==
  LET free == SeqsUpTo(MaxFree, 0..MaxLogit)
  IN  UNION {{Pad(c, m) \o f, f \o Pad(c, m)} :
               f \in free, c \in 0..MaxLogit, m \in 0..MaxPad}

\* ------------------------------------------------- the asynchronous system
\* Task UI is the component's processUploadedImage; the others call the
\* exported initializeModel and detectImage directly.
UI == 0
Callers == 1..NumCallers
Tasks == {UI} \cup Callers
Files == 1..NumFiles

\* ImageDetectionResult | null; input is the file the tensor came from.
NoResult == [ok |-> FALSE, predictions |-> <<>>, input |-> NULL]
Detection(outputData, file) ==
  [ok |-> TRUE, predictions |-> topPredictions(outputData), input |-> file]

\* What session.run can resolve to: the named tensor holding a Float32Array,
\* no tensor of that name, or a tensor whose data has another type.
OutputSamples == {<<2, 0, 2>>}
RunResults ==
  {[kind |-> "float32", data |-> d] : d \in OutputSamples}
    \cup {[kind |-> "absent", data |-> <<>>], [kind |-> "int64", data |-> <<>>]}
NoOutput == [kind |-> "none", data |-> <<>>]

\* State.
\*   prePc, preImage, preTensor, preWrites: one preprocessImage call: where
\*     it is, the image after Jimp.read and resize (NoImage: read rejected),
\*     the Float32Array returned, the indices written in order.
\*   postPc, postScores, postProbabilities, postPredictions: the tail of one
\*     detectImage call: outputData, probabilities, topPredictions.
\*   cachedModelData: the module variable (line 62), NULL or the id of the
\*     fetch whose bytes it holds.  fetchCount: calls of fetch so far.
\*     finishedFetches: the fetches whose arrayBuffer() has resolved.
\*   pc, phase: per task, the await it is suspended at and the caller of
\*     getModelData / createModelSession it is in ("init_gmd": line 95,
\*     "init_session": line 98, "run": line 138).
\*   fetchId, modelData, input: per task, the locals: its fetch in flight,
\*     the bytes getModelData returned, the file behind preprocessedData.
\*   log: per task, what the current detectImage call has done, in order.
\*   runOutput, detected, ret: per task, what session.run resolved to, what
\*     detectImage returned, how the last call of a direct caller ended.
\*   uploadedImage, imagePreview, result, loading, error, modelInitialized:
\*     the component's useState cells (lines 8-13).  previewReaders: the
\*     FileReaders of handleFileUpload still reading.  outcome: how the
\*     last processUploadedImage ended.
VARIABLES
  prePc, preImage, preTensor, preWrites,
  postPc, postScores, postProbabilities, postPredictions,
  cachedModelData, fetchCount, finishedFetches,
  pc, phase, fetchId, modelData, input, log, runOutput, ret, detected,
  uploadedImage, imagePreview, previewReaders, result, loading, error,
  modelInitialized, outcome

preVars == <<prePc, preImage, preTensor, preWrites>>
postVars == <<postPc, postScores, postProbabilities, postPredictions>>
cacheVars == <<cachedModelData, fetchCount, finishedFetches>>
gmdVars == <<pc, phase, fetchId, modelData>>
callVars == <<input, log, runOutput, ret, detected>>
uiVars == <<uploadedImage, imagePreview, previewReaders, result, loading, error,
            modelInitialized, outcome>>
sysVars == <<cacheVars, gmdVars, callVars, uiVars>>
vars == <<preVars, postVars, sysVars>>

SysIdle ==
  /\ cachedModelData = NULL
  /\ fetchCount = 0
  /\ finishedFetches = {}
  /\ pc = [t \in Tasks |-> "idle"]
  /\ phase = [t \in Tasks |-> "none"]
  /\ fetchId = [t \in Tasks |-> NULL]
  /\ modelData = [t \in Tasks |-> NULL]
  /\ input = [t \in Tasks |-> NULL]
  /\ log = [t \in Tasks |-> <<>>]
  /\ runOutput = [t \in Tasks |-> NoOutput]
  /\ ret = [t \in Tasks |-> "none"]
  /\ detected = [t \in Tasks |-> NoResult]
  /\ uploadedImage = NULL
  /\ imagePreview = NULL
  /\ previewReaders = {}
  /\ result = NoResult
  /\ loading = FALSE
  /\ error = "null"
  /\ modelInitialized = FALSE
  /\ outcome = "none"

PreIdle ==
  /\ prePc = "idle"
  /\ preImage = NoImage
  /\ preTensor = <<>>
  /\ preWrites = <<>>

PostIdle ==
  /\ postPc = "idle"
  /\ postScores = <<>>
  /\ postProbabilities = <<>>
  /\ postPredictions = <<>>

\* ------------------------------------------------------------- SpecPre
\* preprocessImage(imageInput) called with an input that Jimp.read decodes
\* and resize scales to width x height, or that Jimp.read rejects.
PreInit ==
  /\ prePc = "called"
  /\ preImage \in Images \cup {NoImage}
  /\ preTensor = <<>>
  /\ preWrites = <<>>
  /\ PostIdle
  /\ SysIdle

\* Jimp.read resolved: resize, processPixels, return.
PreprocessReturn ==
  /\ prePc = "called"
  /\ preImage # NoImage
  /\ prePc' = "returned"
  /\ preTensor' = processPixels(preImage)
  /\ preWrites' = [k \in 1..Len(Writes(preImage)) |-> Writes(preImage)[k].index]
  /\ UNCHANGED <<preImage, postVars, sysVars>>

\* Jimp.read rejected: the promise of preprocessImage rejects.
PreprocessThrow ==
  /\ prePc = "called"
  /\ preImage = NoImage
  /\ prePc' = "threw"
  /\ UNCHANGED <<preImage, preTensor, preWrites, postVars, sysVars>>

PreNext == PreprocessReturn \/ PreprocessThrow

SpecPre == PreInit /\ [][PreNext]_vars

\* ------------------------------------------------------------- SpecPost
\* The tail of detectImage after runResNetModel returned outputData.
PostInit ==
  /\ postPc = "output"
  /\ postScores \in ScoreVectors
  /\ postProbabilities = <<>>
  /\ postPredictions = <<>>
  /\ PreIdle
  /\ SysIdle

\* Lines 222-247: nothing in the tail throws, so predictions are returned.
PostprocessReturn ==
  /\ postPc = "output"
  /\ postPc' = "returned"
  /\ postProbabilities' = computeSoftmax(postScores)
  /\ postPredictions' = topPredictions(postScores)
  /\ UNCHANGED <<postScores, preVars, sysVars>>

PostNext == PostprocessReturn

SpecPost == PostInit /\ [][PostNext]_vars

\* ----------------------------------------------------------------- Spec
Init == PreIdle /\ PostIdle /\ SysIdle

uiRest == <<uploadedImage, imagePreview, previewReaders, modelInitialized>>

\* A plausible slip: the bytes are cached as soon as fetch resolves, before
\* arrayBuffer() has read the body.
CacheWhenFetchResolvesEarly(t) == fetchId[t]

\* Line 75: fetch resolving stores nothing.
CacheWhenFetchResolves(t) == cachedModelData

\* Lines 83-86: the catch block logs and rethrows, the cache is not touched.
CacheWhenFetchThrows(t) == cachedModelData

\* A plausible slip: only the presence of the tensor is checked.
OutputValidNoTypeCheck(out) == out.kind # "absent"

\* Lines 155-163: the named tensor exists and its data is a Float32Array.
OutputValid(out) == out.kind = "float32"

\* A plausible slip: performance.now() taken before the session exists.
EventsOnSessionCreatedTimerFirst == <<"start_time", "session_created", "run_called">>

\* Lines 138-147: the session is there, the timer starts, session.run is called.
EventsOnSessionCreated == <<"session_created", "start_time", "run_called">>

\* Lines 147-163: session.run resolved, the timer stops, the output is checked.
EventsOnRunResolved(out) ==
  <<"run_resolved", "end_time", "validated">>
    \o (IF OutputValid(out) THEN <<"softmax">> ELSE <<>>)

\* getModelData entered by task t for phase ph (lines 64-75): the check of
\* the cache and the call of fetch run with no await in between. With the
\* cache filled, initializeModel goes on to createModelSession, whose own
\* getModelData is served from the cache as well.
EnterGetModelData(t, ph) ==
  IF cachedModelData # NULL
  THEN /\ pc' = [pc EXCEPT ![t] = "await_create"]
       /\ phase' = [phase EXCEPT ![t] = IF ph = "init_gmd" THEN "init_session" ELSE ph]
       /\ modelData' = [modelData EXCEPT ![t] = cachedModelData]
       /\ UNCHANGED <<fetchId, cacheVars>>
  ELSE /\ fetchCount < MaxFetches
       /\ fetchCount' = fetchCount + 1
       /\ fetchId' = [fetchId EXCEPT ![t] = fetchCount + 1]
       /\ pc' = [pc EXCEPT ![t] = "await_fetch"]
       /\ phase' = [phase EXCEPT ![t] = ph]
       /\ modelData' = [modelData EXCEPT ![t] = NULL]
       /\ UNCHANGED <<cachedModelData, finishedFetches>>

\* The call of task t is over: its locals are gone.
Leave(t) ==
  /\ pc' = [pc EXCEPT ![t] = "idle"]
  /\ phase' = [phase EXCEPT ![t] = "none"]
  /\ fetchId' = [fetchId EXCEPT ![t] = NULL]
  /\ modelData' = [modelData EXCEPT ![t] = NULL]
  /\ input' = [input EXCEPT ![t] = NULL]

\* detectImage hands value to its caller. In the component (lines 65-74):
\* setResult(detectionResult), then finally setLoading(false).
FinishDetect(t, value) ==
  /\ Leave(t)
  /\ detected' = [detected EXCEPT ![t] = value]
  /\ IF t = UI
     THEN /\ result' = value
          /\ loading' = FALSE
          /\ outcome' = IF value.ok THEN "ok" ELSE "failed"
          /\ UNCHANGED <<ret, error>>
     ELSE /\ ret' = [ret EXCEPT ![t] = "returned"]
          /\ UNCHANGED <<result, loading, error, outcome>>

\* An exception leaves the component's try block (lines 69-74): setError,
\* then finally setLoading(false).
CatchInComponent(message) ==
  /\ Leave(UI)
  /\ error' = message
  /\ loading' = FALSE
  /\ outcome' = "failed"
  /\ UNCHANGED <<ret, detected, result>>

\* An exception leaves createModelSession or getModelData: detectImage
\* catches it and returns null (lines 248-251); initializeModel rejects.
Throw(t, message) ==
  IF phase[t] = "run" THEN FinishDetect(t, NoResult)
  ELSE IF t = UI THEN CatchInComponent(message)
  ELSE /\ Leave(t)
       /\ ret' = [ret EXCEPT ![t] = "threw"]
       /\ UNCHANGED <<detected, result, loading, error, outcome>>

\* A direct caller calls initializeModel().
CallInitializeModel(t) ==
  /\ t \in Callers
  /\ pc[t] = "idle"
  /\ EnterGetModelData(t, "init_gmd")
  /\ log' = [log EXCEPT ![t] = <<>>]
  /\ runOutput' = [runOutput EXCEPT ![t] = NoOutput]
  /\ ret' = [ret EXCEPT ![t] = "pending"]
  /\ detected' = [detected EXCEPT ![t] = NoResult]
  /\ UNCHANGED <<input, preVars, postVars, uiVars>>

\* A direct caller calls detectImage(preprocessedData) with the tensor of file.
CallDetectImage(t, file) ==
  /\ t \in Callers
  /\ pc[t] = "idle"
  /\ EnterGetModelData(t, "run")
  /\ input' = [input EXCEPT ![t] = file]
  /\ log' = [log EXCEPT ![t] = <<"create_session_called">>]
  /\ runOutput' = [runOutput EXCEPT ![t] = NoOutput]
  /\ ret' = [ret EXCEPT ![t] = "pending"]
  /\ detected' = [detected EXCEPT ![t] = NoResult]
  /\ UNCHANGED <<preVars, postVars, uiVars>>

\* await fetch(modelPath) resolves; arrayBuffer() is awaited next.
FetchResolve(t) ==
  /\ pc[t] = "await_fetch"
  /\ pc' = [pc EXCEPT ![t] = "await_arrayBuffer"]
  /\ cachedModelData' = CacheWhenFetchResolves(t)
  /\ UNCHANGED <<fetchCount, finishedFetches, phase, fetchId, modelData,
                 callVars, uiVars, preVars, postVars>>

\* await fetch(modelPath) rejects: getModelData logs and rethrows.
FetchReject(t) ==
  /\ pc[t] = "await_fetch"
  /\ cachedModelData' = CacheWhenFetchThrows(t)
  /\ Throw(t, "fetch failed")
  /\ UNCHANGED <<fetchCount, finishedFetches, log, runOutput, uiRest,
                 preVars, postVars>>

\* await modelResponse.arrayBuffer() resolves (lines 76-82): the bytes are
\* cached and returned; the caller goes on to InferenceSession.create.
ArrayBufferResolve(t) ==
  /\ pc[t] = "await_arrayBuffer"
  /\ finishedFetches' = finishedFetches \cup {fetchId[t]}
  /\ cachedModelData' = fetchId[t]
  /\ modelData' = [modelData EXCEPT ![t] = fetchId[t]]
  /\ fetchId' = [fetchId EXCEPT ![t] = NULL]
  /\ pc' = [pc EXCEPT ![t] = "await_create"]
  /\ phase' = [phase EXCEPT ![t] = IF @ = "init_gmd" THEN "init_session" ELSE @]
  /\ UNCHANGED <<fetchCount, callVars, uiVars, preVars, postVars>>

\* await modelResponse.arrayBuffer() rejects: getModelData logs and rethrows.
ArrayBufferReject(t) ==
  /\ pc[t] = "await_arrayBuffer"
  /\ cachedModelData' = CacheWhenFetchThrows(t)
  /\ Throw(t, "body failed")
  /\ UNCHANGED <<fetchCount, finishedFetches, log, runOutput, uiRest,
                 preVars, postVars>>

\* await ort.InferenceSession.create resolves. In runResNetModel the timer
\* starts and session.run is called. In initializeModel the session is
\* dropped and the call returns; the component then sets modelInitialized
\* and starts its FileReader (lines 48-56).
CreateResolve(t) ==
  /\ pc[t] = "await_create"
  /\ IF phase[t] = "run"
     THEN /\ pc' = [pc EXCEPT ![t] = "await_run"]
          /\ log' = [log EXCEPT ![t] = @ \o EventsOnSessionCreated]
          /\ UNCHANGED <<phase, fetchId, modelData, input, ret, modelInitialized>>
     ELSE IF t = UI
     THEN /\ modelInitialized' = TRUE
          /\ pc' = [pc EXCEPT ![t] = "await_reader"]
          /\ phase' = [phase EXCEPT ![t] = "none"]
          /\ modelData' = [modelData EXCEPT ![t] = NULL]
          /\ UNCHANGED <<fetchId, input, log, ret>>
     ELSE /\ Leave(t)
          /\ ret' = [ret EXCEPT ![t] = "resolved"]
          /\ UNCHANGED <<log, modelInitialized>>
  /\ UNCHANGED <<cacheVars, runOutput, detected, uploadedImage, imagePreview,
                 previewReaders, result, loading, error, outcome,
                 preVars, postVars>>

\* await ort.InferenceSession.create rejects: createModelSession rethrows.
CreateReject(t) ==
  /\ pc[t] = "await_create"
  /\ Throw(t, "session failed")
  /\ UNCHANGED <<cacheVars, log, runOutput, uiRest, preVars, postVars>>

\* await session.run(feeds) resolves with out (lines 147-169, 222-247): the
\* timer stops, the output is checked, and detectImage ranks it or, when
\* the check throws, returns null.
RunResolve(t, out) ==
  /\ pc[t] = "await_run"
  /\ runOutput' = [runOutput EXCEPT ![t] = out]
  /\ log' = [log EXCEPT ![t] = @ \o EventsOnRunResolved(out)]
  /\ FinishDetect(t, IF OutputValid(out) THEN Detection(out.data, input[t])
                     ELSE NoResult)
  /\ UNCHANGED <<cacheVars, uiRest, preVars, postVars>>

\* await session.run(feeds) rejects: rethrown, detectImage returns null.
RunReject(t) ==
  /\ pc[t] = "await_run"
  /\ runOutput' = [runOutput EXCEPT ![t] = [kind |-> "rejected", data |-> <<>>]]
  /\ log' = [log EXCEPT ![t] = @ \o <<"run_rejected">>]
  /\ FinishDetect(t, NoResult)
  /\ UNCHANGED <<cacheVars, uiRest, preVars, postVars>>

\* handleFileUpload(file), file null when the selection is cleared.
handleFileUpload(file) ==
  /\ uploadedImage' = file
  /\ result' = NoResult
  /\ IF file # NULL
     THEN /\ previewReaders' = previewReaders \cup {file}
          /\ imagePreview' = imagePreview
     ELSE /\ imagePreview' = NULL
          /\ previewReaders' = previewReaders
  /\ UNCHANGED <<cacheVars, gmdVars, callVars, loading, error,
                 modelInitialized, outcome, preVars, postVars>>

\* reader.onloadend of a preview reader started by handleFileUpload.
PreviewLoadEnd(file) ==
  /\ file \in previewReaders
  /\ previewReaders' = previewReaders \ {file}
  /\ imagePreview' = file
  /\ UNCHANGED <<cacheVars, gmdVars, callVars, uploadedImage, result, loading,
                 error, modelInitialized, outcome, preVars, postVars>>

\* The button, enabled unless loading || !uploadedImage, runs
\* processUploadedImage up to its first await (lines 33-56).
processUploadedImage ==
  /\ ~loading
  /\ uploadedImage # NULL
  /\ pc[UI] = "idle"
  /\ loading' = TRUE
  /\ error' = "null"
  /\ result' = NoResult
  /\ outcome' = "pending"
  /\ input' = [input EXCEPT ![UI] = uploadedImage]
  /\ log' = [log EXCEPT ![UI] = <<>>]
  /\ runOutput' = [runOutput EXCEPT ![UI] = NoOutput]
  /\ detected' = [detected EXCEPT ![UI] = NoResult]
  /\ IF ~modelInitialized
     THEN EnterGetModelData(UI, "init_gmd")
     ELSE /\ pc' = [pc EXCEPT ![UI] = "await_reader"]
          /\ UNCHANGED <<cacheVars, phase, fetchId, modelData>>
  /\ UNCHANGED <<ret, uiRest, preVars, postVars>>

\* reader.onload: the data URL is there, preprocessImage awaits Jimp.read.
ReaderLoad ==
  /\ pc[UI] = "await_reader"
  /\ pc' = [pc EXCEPT ![UI] = "await_preprocess"]
  /\ UNCHANGED <<cacheVars, phase, fetchId, modelData, callVars, uiVars,
                 preVars, postVars>>

\* reader.onerror: the promise rejects with an event, not an Error.
ReaderError ==
  /\ pc[UI] = "await_reader"
  /\ CatchInComponent("default message")
  /\ UNCHANGED <<cacheVars, log, runOutput, uiRest, preVars, postVars>>

\* preprocessImage resolved: detectImage is called and runs up to the
\* first await of getModelData or InferenceSession.create.
PreprocessResolve ==
  /\ pc[UI] = "await_preprocess"
  /\ EnterGetModelData(UI, "run")
  /\ log' = [log EXCEPT ![UI] = <<"create_session_called">>]
  /\ UNCHANGED <<input, runOutput, ret, detected, uiVars, preVars, postVars>>

\* preprocessImage rejected (Jimp.read could not decode the data URL).
PreprocessReject ==
  /\ pc[UI] = "await_preprocess"
  /\ CatchInComponent("decode failed")
  /\ UNCHANGED <<cacheVars, log, runOutput, uiRest, preVars, postVars>>

\* What an await of the module can do next, for whichever task waits.
AwaitNext ==
  \/ \E t \in Tasks : FetchResolve(t)
  \/ \E t \in Tasks : FetchReject(t)
  \/ \E t \in Tasks : ArrayBufferResolve(t)
  \/ \E t \in Tasks : ArrayBufferReject(t)
  \/ \E t \in Tasks : CreateResolve(t)
  \/ \E t \in Tasks : CreateReject(t)
  \/ \E t \in Tasks, out \in RunResults : RunResolve(t, out)
  \/ \E t \in Tasks : RunReject(t)

\* The module under direct callers of initializeModel and detectImage.
Next ==
  \/ \E t \in Callers : CallInitializeModel(t)
  \/ \E t \in Callers, file \in Files : CallDetectImage(t, file)
  \/ AwaitNext

Spec == Init /\ [][Next]_vars

\* The component, the only caller of the module in the application.
ComponentNext ==
  \/ \E file \in Files \cup {NULL} : handleFileUpload(file)
  \/ \E file \in Files : PreviewLoadEnd(file)
  \/ processUploadedImage
  \/ ReaderLoad
  \/ ReaderError
  \/ PreprocessResolve
  \/ PreprocessReject
  \/ AwaitNext

SpecComponent == Init /\ [][ComponentNext]_vars

\* ---------------------------------------------------------------- claims
Positions(s, e) == {i \in 1..Len(s) : s[i] = e}

\* C1: over any interleaving of initializeModel and detectImage calls the
\* model file is fetched at most once. Two calls that both start before the
\* first fetch has filled the cache each issue a fetch, and so does a call
\* made after a fetch failed.
C1_FetchedAtMostOnce == fetchCount <= 1

\* C2: a classification request of the component that failed in any step
\* ends with no result and with an error message. detectImage turns every
\* failure of its own into null, which the component stores without an error.
C2_FailedRequestReportsError ==
  outcome = "failed" => (result = NoResult /\ error # "null")

\* C3: the cache is null or the complete bytes of a finished fetch, never
\* goes back to null, every getModelData that returns hands out the complete
\* bytes of a finished fetch, and a getModelData whose fetch or body read
\* throws leaves the cache as it was and ends the call without a session.
C3_CacheComplete ==
  /\ cachedModelData # NULL => cachedModelData \in finishedFetches
  /\ \A t \in Tasks : modelData[t] # NULL => modelData[t] \in finishedFetches

C3_CacheStep ==
  /\ cachedModelData # NULL => cachedModelData' # NULL
  /\ \A t \in Tasks :
       (pc[t] \in {"await_fetch", "await_arrayBuffer"} /\ pc'[t] = "idle")
         => /\ cachedModelData' = cachedModelData
            /\ modelData'[t] = NULL
            /\ IF phase[t] = "run"
               THEN detected'[t] = NoResult /\ ret'[t] = "returned"
               ELSE ret'[t] = "threw"

\* C3: the cache is complete in every state and every step keeps it so.
C3_CacheNeverCorrupted == [](C3_CacheComplete) /\ [][C3_CacheStep]_vars

\* C3 witness: one caller's fetch threw while another caller holds the
\* bytes that a second, finished fetch put into the cache.
C3_Witness ==
  \E t, u \in Callers :
    /\ ret[t] = "threw"
    /\ cachedModelData # NULL
    /\ modelData[u] = cachedModelData

C5_LengthMismatchNeverReturns ==
  ~(postPc = "returned" /\ Len(postScores) # Len(labels))

C7_ChannelMajorTensor ==
  prePc = "returned" =>
    LET size == channels * height * width
    IN  /\ DOMAIN preTensor = 0..(size - 1)
        /\ Len(preWrites) = size
        /\ \A i \in 0..(size - 1) : Cardinality(Positions(preWrites, i)) = 1
        /\ \A c \in 0..(channels - 1), h \in 0..(height - 1), w \in 0..(width - 1) :
             LET rgba == intToRGBA(preImage[<<w, h>>])
                 byte == <<rgba.r, rgba.g, rgba.b>>[c + 1]
             IN  preTensor[c * height * width + h * width + w]
                   = ((((byte * 1000) \div 255) - mean[c + 1]) * 1000) \div std[c + 1]

\* C7 witness: a decoded image whose first row and first column both mix
\* the two colours has been preprocessed.
C7_Witness ==
  /\ prePc = "returned"
  /\ preImage[<<0, 0>>] # preImage[<<1, 0>>]
  /\ preImage[<<0, 0>>] # preImage[<<0, 1>>]
  /\ preImage[<<1, 0>>] # preImage[<<2, 0>>]

\* C8: when session.run resolves without the tensor resnetv17_dense0_fwd,
\* or with data that is no Float32Array, no softmax or ranking runs and
\* detectImage returns null.
C8_BadOutputYieldsNothing ==
  \A t \in Tasks :
    runOutput[t].kind \in {"absent", "int64"} =>
      /\ pc[t] = "idle"
      /\ detected[t] = NoResult
      /\ Positions(log[t], "softmax") = {}
      /\ Positions(log[t], "validated") # {}

\* C8 witness: one call ended on a missing tensor, another on a wrong type.
C8_Witness ==
  \E t, u \in Callers :
    /\ runOutput[t].kind = "absent"
    /\ runOutput[u].kind = "int64"
    /\ ret[t] = "returned"
    /\ ret[u] = "returned"

\* C9: the session exists before the start timestamp is taken, exactly one
\* session.run lies between the start and the end timestamp and nothing
\* else does, and the output is checked only after the end timestamp.
C9_TimerBracketsRun ==
  \A t \in Tasks :
    LET l == log[t]
    IN  /\ \A s \in Positions(l, "start_time") :
             /\ \E c \in 1..(s - 1) : l[c] = "session_created"
             /\ \A j \in (s + 1)..Len(l) :
                  l[j] \notin {"create_session_called", "session_created"}
        /\ \A e \in Positions(l, "end_time") :
             /\ e >= 4
             /\ l[e - 3] = "start_time"
             /\ l[e - 2] = "run_called"
             /\ l[e - 1] = "run_resolved"
             /\ \A v \in Positions(l, "validated") : v > e
        /\ Cardinality(Positions(l, "run_called")) <= 1
        /\ Cardinality(Positions(l, "start_time")) <= 1

\* C9 witness: a call went through session creation, the timed run and
\* the check of the output.
C9_Witness ==
  \E t \in Callers :
    /\ Positions(log[t], "end_time") # {}
    /\ Positions(log[t], "validated") # {}
    /\ detected[t].ok

\* C10: a result on display was computed from the file now selected. A
\* file picked or cleared while a request is in flight does not stop the
\* request from storing the result of the file it started with.
C10_ResultIsOfSelectedFile == result.ok => result.input = uploadedImage

====
